---- MODULE Spec2Model ----
(***************************************************************************)
(* A model of dicom/dataelem.py: one data element (DataElement or          *)
(* DeferredDataElement), the operations of its classes, and                *)
(* DataElement_from_raw.                                                   *)
(*                                                                         *)
(* Python values are records [k |-> kind, v |-> payload]:                  *)
(*   None            k = "None"                                            *)
(*   a str           k = "str",      v = its characters                    *)
(*   a number        k = "num",      v = <<n>>                             *)
(*   a list          k = "list",     v = its items                         *)
(*   a Sequence      k = "Sequence", v = its items                         *)
(*   a Dataset       k = "Dataset"   (an item of a Sequence, opaque)       *)
(*   IS / DS / UID   k = "IS" / "DS" / "UID", v = <<the value wrapped>>    *)
(* The result of a call is [ok |-> TRUE, val |-> value] when it returns    *)
(* and [ok |-> FALSE, val |-> Error(name)] when it raises.                 *)
(***************************************************************************)
EXTENDS Integers, Sequences, FiniteSets, TLC

VARIABLES
    kind,                 \* "none" (no element yet), "DataElement", "DeferredDataElement"
    tag,                  \* self.tag: <<group, element>>
    VR,                   \* self.VR
    _value,               \* self._value
    file_tell,            \* self.file_tell
    is_undefined_length,  \* self.is_undefined_length
    private_creator,      \* self.private_creator, NoAttr while the attribute is not attached
    deferred,             \* the fields DeferredDataElement.__init__ stores for the later read
    source_mtime,         \* environment: the modification time of the source file now
    materializations,     \* history: number of calls of read_value
    assigned,             \* history: the value of a DeferredDataElement was assigned
    ret                   \* the last operation, its argument and what it returned or raised

vars == <<kind, tag, VR, _value, file_tell, is_undefined_length, private_creator,
          deferred, source_mtime, materializations, assigned, ret>>

-----------------------------------------------------------------------------
(* Bounds of the model *)

MaxLen == 2            \* longest string assigned or read from a source
MaxMaterializations == 2   \* most calls of read_value in a behaviour
MaxMtime == 2          \* latest modification time of the source file

-----------------------------------------------------------------------------
(* Python values *)

None == [k |-> "None", v |-> <<>>]
Str(s) == [k |-> "str", v |-> s]
Num(n) == [k |-> "num", v |-> <<n>>]
List(items) == [k |-> "list", v |-> items]
Dataset0 == [k |-> "Dataset", v |-> <<>>]
Error(name) == [k |-> "Error", v |-> <<name>>]
NoAttr == [k |-> "NoAttr", v |-> <<>>]

Returns(val) == [ok |-> TRUE, val |-> val]
Raises(name) == [ok |-> FALSE, val |-> Error(name)]

_backslash == "\\"

Chars == {"1", _backslash}

Strings == UNION {[1..n -> Chars] : n \in 0..MaxLen}

RECURSIVE CountBackslash(_)
CountBackslash(s) ==
    IF s = <<>> THEN 0
    ELSE (IF Head(s) = _backslash THEN 1 ELSE 0) + CountBackslash(Tail(s))

\* `_backslash in val`
HasBackslash(s) == \E i \in 1..Len(s) : s[i] = _backslash

\* a split that stops at the first backslash
split_first_only(s) ==
    IF ~HasBackslash(s) THEN <<s>>
    ELSE LET i == CHOOSE j \in 1..Len(s) :
                      /\ s[j] = _backslash
                      /\ \A h \in 1..(j-1) : s[h] # _backslash
         IN  <<SubSeq(s, 1, i-1), SubSeq(s, i+1, Len(s))>>

\* val.split(_backslash)
RECURSIVE split(_)
split(s) ==
    IF ~HasBackslash(s) THEN <<s>>
    ELSE LET i == CHOOSE j \in 1..Len(s) :
                      /\ s[j] = _backslash
                      /\ \A h \in 1..(j-1) : s[h] # _backslash
         IN  <<SubSeq(s, 1, i-1)>> \o split(SubSeq(s, i+1, Len(s)))

StrList(ss) == List([i \in 1..Len(ss) |-> Str(ss[i])])

-----------------------------------------------------------------------------
(* Helper functions of the module *)

\* `val + ""` succeeds for a str and for a UID (a str subclass)
isString(val) == val.k \in {"str", "UID"}

\* the characters of a string-like value
Text(val) == IF val.k = "UID" THEN val.v[1].v ELSE val.v

isMultiValue(val) ==
    IF isString(val) THEN FALSE
    ELSE val.k \in {"list", "Sequence"}

-----------------------------------------------------------------------------
(* Value representations *)

NoSplitVRs ==
    {"UT", "ST", "LT", "FL", "FD", "AT", "OB", "OW", "OF", "SL", "SQ", "SS",
     "UL", "OB/OW", "OW/OB", "OB or OW", "OW or OB", "UN"}

BytesVRs ==
    {"OB", "OW", "OW/OB", "OW or OB", "OB or OW", "US or SS or OW", "US or SS"}

\* the VRs the model constructs elements with
VRs == NoSplitVRs \cup BytesVRs \cup {"IS", "DS", "UI", "PN", "US"}

\* the characters of each VR code
Spelling(vr) ==
    CASE vr = "UT" -> <<"U", "T">>
      [] vr = "ST" -> <<"S", "T">>
      [] vr = "LT" -> <<"L", "T">>
      [] vr = "FL" -> <<"F", "L">>
      [] vr = "FD" -> <<"F", "D">>
      [] vr = "AT" -> <<"A", "T">>
      [] vr = "OB" -> <<"O", "B">>
      [] vr = "OW" -> <<"O", "W">>
      [] vr = "OF" -> <<"O", "F">>
      [] vr = "SL" -> <<"S", "L">>
      [] vr = "SQ" -> <<"S", "Q">>
      [] vr = "SS" -> <<"S", "S">>
      [] vr = "UL" -> <<"U", "L">>
      [] vr = "UN" -> <<"U", "N">>
      [] vr = "IS" -> <<"I", "S">>
      [] vr = "DS" -> <<"D", "S">>
      [] vr = "UI" -> <<"U", "I">>
      [] vr = "PN" -> <<"P", "N">>
      [] vr = "US" -> <<"U", "S">>
      [] vr = "AS" -> <<"A", "S">>
      [] vr = "ZZ" -> <<"Z", "Z">>
      [] vr = "OB/OW" -> <<"O", "B", "/", "O", "W">>
      [] vr = "OW/OB" -> <<"O", "W", "/", "O", "B">>
      [] vr = "OB or OW" -> <<"O", "B", " ", "o", "r", " ", "O", "W">>
      [] vr = "OW or OB" -> <<"O", "W", " ", "o", "r", " ", "O", "B">>
      [] vr = "US or SS" -> <<"U", "S", " ", "o", "r", " ", "S", "S">>
      [] vr = "US or SS or OW" ->
             <<"U", "S", " ", "o", "r", " ", "S", "S", " ", "o", "r", " ", "O", "W">>

\* `'US' in self.VR`
ContainsUS(vr) ==
    LET s == Spelling(vr)
    IN  \E i \in 1..(Len(s) - 1) : s[i] = "U" /\ s[i+1] = "S"

-----------------------------------------------------------------------------
(* Collaborators: value types *)

\* dicom.valuerep.IS: parsed from text, a blank string is passed through
IS(val) ==
    CASE val.k = "str" ->
            IF val.v = <<>> THEN Returns(val)
            ELSE IF HasBackslash(val.v) THEN Raises("ValueError")
            ELSE Returns([k |-> "IS", v |-> <<val>>])
      [] val.k = "num" -> Returns([k |-> "IS", v |-> <<val>>])
      [] OTHER -> Raises("TypeError")

\* dicom.valuerep.DS
DS(val) ==
    CASE val.k = "str" ->
            IF val.v = <<>> THEN Returns(val)
            ELSE IF HasBackslash(val.v) THEN Raises("ValueError")
            ELSE Returns([k |-> "DS", v |-> <<val>>])
      [] val.k = "num" -> Returns([k |-> "DS", v |-> <<val>>])
      [] OTHER -> Raises("TypeError")

\* dicom.UID.UID: wraps a string
UID(val) ==
    CASE val.k = "str" -> Returns([k |-> "UID", v |-> <<val>>])
      [] val.k = "UID" -> Returns(val)
      [] OTHER -> Raises("TypeError")

\* dicom.sequence.Sequence(val), a list subclass built from an iterable
Sequence(val) ==
    CASE val.k \in {"list", "Sequence"} -> Returns([k |-> "Sequence", v |-> val.v])
      [] val.k = "str" ->
            Returns([k |-> "Sequence", v |-> [i \in 1..Len(val.v) |-> Str(<<val.v[i]>>)]])
      [] OTHER -> Raises("TypeError")

-----------------------------------------------------------------------------
(* VR conversion: DataElement._convert, _convert_value, _setvalue *)

_convert(vr, val) ==
    IF vr = "IS" THEN IS(val)
    ELSE IF vr = "DS" THEN DS(val)
    ELSE IF vr = "UI" THEN UID(val)
    ELSE Returns(val)

\* `val.append` exists
HasAppend(val) == val.k \in {"list", "Sequence"}

_convert_value(vr, val) ==
    IF vr = "SQ" THEN
        IF val.k = "Sequence" THEN Returns(val) ELSE Sequence(val)
    ELSE IF ~HasAppend(val) THEN _convert(vr, val)
    ELSE LET conv == [i \in 1..Len(val.v) |-> _convert(vr, val.v[i])]
             bad  == {i \in 1..Len(val.v) : ~conv[i].ok}
         IN  IF bad # {}
             THEN conv[CHOOSE i \in bad : \A j \in bad : i <= j]
             ELSE Returns(List([i \in 1..Len(val.v) |-> conv[i].val]))

\* the test of lines 126-128: a string whose VR takes backslash-separated values
Splittable(vr, val) ==
    isString(val) /\ vr \notin NoSplitVRs /\ ~ContainsUS(vr)

\* DataElement._setvalue: the result of the conversion; when it returns,
\* its value is what is stored in self._value
_setvalue(vr, val) ==
    LET val1 == IF Splittable(vr, val) /\ HasBackslash(Text(val))
                THEN StrList(split(Text(val)))
                ELSE val
    IN  _convert_value(vr, val1)

-----------------------------------------------------------------------------
(* Collaborators: tags and the tag dictionaries *)

Groups == {9, 16}                  \* 0x0009 (private), 0x0010
Elements == {0, 16, 256, 4112}     \* 0x0000, 0x0010, 0x0100, 0x1010
Tags == (Groups \X Elements) \cup {<<2, 0>>}

\* dicom.tag.Tag: is_private, and elem (also named element)
is_private(t) == t[1] % 2 = 1
elem(t) == t[2]

\* dicom.datadict: the entries of the DICOM dictionary for the tags of the model
DicomDictionary ==
    (<<2, 0>> :> [VR |-> "UL", name |-> "File Meta Information Group Length"]) @@
    (<<16, 16>> :> [VR |-> "PN", name |-> "Patient's Name"]) @@
    (<<16, 4112>> :> [VR |-> "AS", name |-> "Patient's Age"])

dictionary_has_tag(t) == t \in DOMAIN DicomDictionary
dictionary_description(t) == DicomDictionary[t].name

dictionaryVR(t) ==
    IF t \in DOMAIN DicomDictionary
    THEN [ok |-> TRUE, val |-> DicomDictionary[t].VR]
    ELSE Raises("KeyError")

\* dicom.datadict: the private dictionary, by tag and creator
Creators == {"ACME"}
PrivateDictionary == (<<<<9, 4112>>, "ACME">> :> "Acme data")

private_dictionary_description(t, creator) ==
    IF <<t, creator>> \in DOMAIN PrivateDictionary
    THEN [ok |-> TRUE, val |-> PrivateDictionary[<<t, creator>>]]
    ELSE Raises("KeyError")

-----------------------------------------------------------------------------
(* Display: description, repval, __str__ *)

maxBytesToDisplay == 16

\* description with the low byte of the element number tested for zero
description_low_byte(t, creator) ==
    IF dictionary_has_tag(t) THEN <<dictionary_description(t)>>
    ELSE IF is_private(t) THEN
        IF creator # NoAttr THEN
            LET r == private_dictionary_description(t, creator.v[1])
            IN  IF r.ok THEN <<"[", r.val, "]">> ELSE <<"Private tag data">>
        ELSE IF elem(t) % 256 = 0 THEN <<"Private Creator">>
        ELSE <<"Private tag data">>
    ELSE IF elem(t) = 0 THEN <<"Group Length">>
    ELSE <<"">>

\* DataElement.description; a name is a tuple of the strings joined to make it
description(t, creator) ==
    IF dictionary_has_tag(t) THEN <<dictionary_description(t)>>
    ELSE IF is_private(t) THEN
        IF creator # NoAttr THEN
            LET r == private_dictionary_description(t, creator.v[1])
            IN  IF r.ok THEN <<"[", r.val, "]">> ELSE <<"Private tag data">>
        ELSE IF elem(t) \div 256 = 0 THEN <<"Private Creator">>
        ELSE <<"Private tag data">>
    ELSE IF elem(t) = 0 THEN <<"Group Length">>
    ELSE <<"">>

\* len(value)
len(val) ==
    IF val.k \in {"str", "list", "Sequence"} THEN [ok |-> TRUE, val |-> Len(val.v)]
    ELSE IF val.k = "UID" THEN [ok |-> TRUE, val |-> Len(val.v[1].v)]
    ELSE Raises("TypeError")

\* DataElement._get_repval on a value already read; maxBytes is the class's
\* maxBytesToDisplay at the call. No code of the module attaches
\* original_string to the element, so that branch is not taken.
DataElement_get_repval(vr, val, maxBytes) ==
    LET n == len(val)
    IN  IF vr \in BytesVRs /\ ~n.ok THEN n
        ELSE IF vr \in BytesVRs /\ n.val > maxBytes
            THEN Returns([k |-> "repval", v |-> <<"Array of %d bytes", Num(n.val)>>])
        ELSE IF val.k = "UID"
            THEN Returns([k |-> "repval", v |-> <<"name", val>>])
        ELSE Returns([k |-> "repval", v |-> <<"repr", val>>])

\* DeferredDataElement._get_repval while the value is unread
Deferred_repval(length) ==
    [k |-> "repval", v |-> <<"Deferred read: length %d", Num(length)>>]

\* DataElement.__str__: the fields of the format string. The names of the
\* model's dictionaries are shorter than descripWidth, so [:descripWidth]
\* keeps them whole.
str_format(t, creator, vr, repVal, showVR) ==
    IF showVR
    THEN [k |-> "str", v |-> <<t, description(t, creator), vr, repVal>>]
    ELSE [k |-> "str", v |-> <<t, description(t, creator), "", repVal>>]

-----------------------------------------------------------------------------
(* The inputs of the model *)

Seq0 == [k |-> "Sequence", v |-> <<Dataset0>>]

\* values assigned to an element
InputValues ==
    {None, Num(1), Seq0, List(<<Dataset0>>), List(<<Str(<<"1">>), Str(<<>>)>>),
     Str(<<"1", _backslash, "1">>)}
        \cup {Str(s) : s \in Strings}

\* what the value decoder gives for the bytes of a raw record or of a source file
DecodedValues == {Str(<<>>), Str(<<"1">>), Str(<<"1", _backslash, "1">>), Num(1)}
SourceValues == {Str(<<"1">>), Str(<<"1", _backslash, "1">>)}

NoneVR == "<None>"
\* a 32-bit length field as <<high 16 bits, low 16 bits>>
UndefinedLength == <<65535, 65535>>      \* 0xFFFFFFFF

RawDataElements ==
    [tag : Tags, VR : VRs \cup {"ZZ", NoneVR}, length : {<<0, 2>>, UndefinedLength},
     value : DecodedValues, value_tell : {132},
     is_implicit_VR : {TRUE}, is_little_endian : {TRUE}]

Keys == {0, 1}

-----------------------------------------------------------------------------
(* The element *)

NoDeferred ==
    [fp_is_implicit_VR |-> FALSE, fp_is_little_endian |-> FALSE, filepath |-> "",
     file_mtime |-> 0, data_element_tell |-> 0, length |-> 0]

Unread == kind = "DeferredDataElement" /\ _value = None

Done(op, arg, res) == [op |-> op, arg |-> arg, ok |-> res.ok, out |-> res.val]

Init ==
    /\ kind = "none"
    /\ tag = <<0, 0>>
    /\ VR = NoneVR
    /\ _value = None
    /\ file_tell = None
    /\ is_undefined_length = FALSE
    /\ private_creator = NoAttr
    /\ deferred = NoDeferred
    /\ source_mtime = 1
    /\ materializations = 0
    /\ assigned = FALSE
    /\ ret = Done("import", None, Returns(None))

\* DataElement.__init__; when the value setter raises, no element is made
NewDataElement(t, vr, val) ==
    /\ kind = "none"
    /\ \E r \in {_setvalue(vr, val)} :
          /\ ret' = Done("DataElement", val, IF r.ok THEN Returns(None) ELSE r)
          /\ IF r.ok
             THEN /\ kind' = "DataElement"
                  /\ tag' = t
                  /\ VR' = vr
                  /\ _value' = r.val
             ELSE UNCHANGED <<kind, tag, VR, _value>>
    /\ UNCHANGED <<file_tell, is_undefined_length, private_creator, deferred,
                   source_mtime, materializations, assigned>>

\* DeferredDataElement.__init__; the caller passes the modification time of
\* the file it is reading
NewDeferredDataElement(t, vr, length) ==
    /\ kind = "none"
    /\ kind' = "DeferredDataElement"
    /\ tag' = t
    /\ VR' = vr
    /\ _value' = None
    /\ deferred' = [fp_is_implicit_VR |-> TRUE, fp_is_little_endian |-> TRUE,
                    filepath |-> "file.dcm", file_mtime |-> source_mtime,
                    data_element_tell |-> 132, length |-> length]
    /\ ret' = Done("DeferredDataElement", None, Returns(None))
    /\ UNCHANGED <<file_tell, is_undefined_length, private_creator,
                   source_mtime, materializations, assigned>>

\* ResolveVR with the group length test made before the private test
ResolveVR_group_length_first(raw) ==
    IF raw.VR # NoneVR THEN [ok |-> TRUE, val |-> raw.VR]
    ELSE LET d == dictionaryVR(raw.tag)
         IN  IF d.ok THEN d
             ELSE IF elem(raw.tag) = 0 THEN [ok |-> TRUE, val |-> "UL"]
             ELSE IF is_private(raw.tag) THEN [ok |-> TRUE, val |-> "OB"]
             ELSE Raises("KeyError")

\* ResolveVR without the group length default
ResolveVR_no_group_length(raw) ==
    IF raw.VR # NoneVR THEN [ok |-> TRUE, val |-> raw.VR]
    ELSE LET d == dictionaryVR(raw.tag)
         IN  IF d.ok THEN d
             ELSE IF is_private(raw.tag) THEN [ok |-> TRUE, val |-> "OB"]
             ELSE Raises("KeyError")

\* DataElement_from_raw, lines 313-323: the VR of the element
ResolveVR(raw) ==
    IF raw.VR # NoneVR THEN [ok |-> TRUE, val |-> raw.VR]
    ELSE LET d == dictionaryVR(raw.tag)
         IN  IF d.ok THEN d
             ELSE IF is_private(raw.tag) THEN [ok |-> TRUE, val |-> "OB"]
             ELSE IF elem(raw.tag) = 0 THEN [ok |-> TRUE, val |-> "UL"]
             ELSE Raises("KeyError")

\* dicom.values.convert_value: the bytes of the model's raw records stand for
\* the value the decoder gives; a VR without a converter is not implemented
convert_value(vr, raw) ==
    IF vr \in VRs \cup {"AS"} THEN Returns(raw.value) ELSE Raises("NotImplementedError")

\* DataElement_from_raw: [res, VR, value] of the call
DataElement_from_raw(raw) ==
    LET vr == ResolveVR(raw)
    IN  IF ~vr.ok THEN [res |-> vr, VR |-> NoneVR, value |-> None]
        ELSE LET value == convert_value(vr.val, raw)
             IN  IF ~value.ok THEN [res |-> value, VR |-> vr.val, value |-> None]
                 ELSE LET r == _setvalue(vr.val, value.val)
                      IN  IF ~r.ok THEN [res |-> r, VR |-> vr.val, value |-> None]
                          ELSE [res |-> Returns(None), VR |-> vr.val, value |-> r.val]

FromRaw(raw) ==
    /\ kind = "none"
    /\ \E e \in {DataElement_from_raw(raw)} :
          /\ ret' = Done("DataElement_from_raw", raw, e.res)
          /\ IF e.res.ok
             THEN /\ kind' = "DataElement"
                  /\ tag' = raw.tag
                  /\ VR' = e.VR
                  /\ _value' = e.value
                  /\ file_tell' = Num(raw.value_tell)
                  /\ is_undefined_length' = (raw.length = UndefinedLength)
             ELSE UNCHANGED <<kind, tag, VR, _value, file_tell, is_undefined_length>>
    /\ UNCHANGED <<private_creator, deferred, source_mtime, materializations, assigned>>

-----------------------------------------------------------------------------
(* The value property *)

\* read_value of a DeferredDataElement: [res, _value] of the call. The source
\* is reopened and read, its modification time is compared with the one
\* stored, and the value read goes through the value setter.
read_value(vr, stored_mtime, mtime, src_val) ==
    IF mtime # stored_mtime THEN [res |-> Raises("StaleSource"), _value |-> None]
    ELSE LET r == _setvalue(vr, src_val)
         IN  IF r.ok THEN [res |-> Returns(None), _value |-> r.val]
             ELSE [res |-> r, _value |-> None]

\* DataElement._getvalue: [res, _value, reads]
DataElement_getvalue(value) ==
    [res |-> Returns(value), _value |-> value, reads |-> 0]

\* _getvalue that reads the source on every call
Deferred_getvalue_always_reads(value, vr, stored_mtime, mtime, src_val) ==
    LET m == read_value(vr, stored_mtime, mtime, src_val)
    IN  IF m.res.ok
        THEN [res |-> Returns(m._value), _value |-> m._value, reads |-> 1]
        ELSE [res |-> m.res, _value |-> value, reads |-> 1]

\* _getvalue that swallows the failure of read_value and returns self._value
Deferred_getvalue_swallows(value, vr, stored_mtime, mtime, src_val) ==
    IF value = None
    THEN LET m == read_value(vr, stored_mtime, mtime, src_val)
         IN  IF m.res.ok
             THEN [res |-> Returns(m._value), _value |-> m._value, reads |-> 1]
             ELSE [res |-> Returns(value), _value |-> value, reads |-> 1]
    ELSE [res |-> Returns(value), _value |-> value, reads |-> 0]

\* DeferredDataElement._getvalue: [res, _value, reads], reads the number of
\* calls of read_value made
Deferred_getvalue(value, vr, stored_mtime, mtime, src_val) ==
    IF value = None
    THEN LET m == read_value(vr, stored_mtime, mtime, src_val)
         IN  IF m.res.ok
             THEN [res |-> Returns(m._value), _value |-> m._value, reads |-> 1]
             ELSE [res |-> m.res, _value |-> value, reads |-> 1]
    ELSE [res |-> Returns(value), _value |-> value, reads |-> 0]

\* self.value, read
value_get(src_val) ==
    IF kind = "DeferredDataElement"
    THEN Deferred_getvalue(_value, VR, deferred.file_mtime, source_mtime, src_val)
    ELSE DataElement_getvalue(_value)

\* what a read of self.value may find in the source
Sources == IF Unread THEN SourceValues ELSE {None}

CanRead == Unread => materializations < MaxMaterializations

\* the state after an operation that reads self.value as g and does no more
AfterRead(g) ==
    /\ _value' = g._value
    /\ materializations' = materializations + g.reads
    /\ UNCHANGED <<kind, tag, VR, file_tell, is_undefined_length, private_creator,
                   deferred, source_mtime, assigned>>

GetValue ==
    /\ kind # "none"
    /\ CanRead
    /\ \E src_val \in Sources : \E g \in {value_get(src_val)} :
          /\ AfterRead(g)
          /\ ret' = Done("value", None, g.res)

\* DataElement._setvalue and DeferredDataElement._setvalue
SetValue(val) ==
    /\ kind # "none"
    /\ \E r \in {_setvalue(VR, val)} :
          /\ _value' = IF r.ok THEN r.val ELSE _value
          /\ ret' = Done("value=", val, IF r.ok THEN Returns(None) ELSE r)
    /\ assigned' = (assigned \/ kind = "DeferredDataElement")
    /\ UNCHANGED <<kind, tag, VR, file_tell, is_undefined_length, private_creator,
                   deferred, source_mtime, materializations>>

\* self.VR = vr: VR is a plain attribute
SetVR(vr) ==
    /\ kind # "none"
    /\ VR' = vr
    /\ ret' = Done("VR=", None, Returns(None))
    /\ UNCHANGED <<kind, tag, _value, file_tell, is_undefined_length, private_creator,
                   deferred, source_mtime, materializations, assigned>>

\* DataElement._getVM
_getVM(g) ==
    IF ~g.res.ok THEN g.res
    ELSE IF isMultiValue(g.res.val) THEN Returns(Num(Len(g.res.val.v)))
    ELSE Returns(Num(1))

GetVM ==
    /\ kind # "none"
    /\ CanRead
    /\ \E src_val \in Sources : \E g \in {value_get(src_val)} :
          /\ AfterRead(g)
          /\ ret' = Done("VM", None, _getVM(g))

Unscriptable == "TypeError: DataElement value is unscriptable (not a Sequence)"

\* value[key]
index(val, key) ==
    CASE val.k \in {"list", "Sequence"} ->
            IF key < Len(val.v) THEN Returns(val.v[key + 1]) ELSE Raises("IndexError")
      [] val.k = "str" ->
            IF key < Len(val.v) THEN Returns(Str(<<val.v[key + 1]>>)) ELSE Raises("IndexError")
      [] val.k = "UID" ->
            IF key < Len(val.v[1].v) THEN Returns(Str(<<val.v[1].v[key + 1]>>))
            ELSE Raises("IndexError")
      [] OTHER -> Raises("TypeError")

\* DataElement.__getitem__
__getitem__(g, key) ==
    LET r == IF g.res.ok THEN index(g.res.val, key) ELSE g.res
    IN  IF ~r.ok /\ r.val = Error("TypeError") THEN Raises(Unscriptable) ELSE r

GetItem(key) ==
    /\ kind # "none"
    /\ CanRead
    /\ \E src_val \in Sources : \E g \in {value_get(src_val)} :
          /\ AfterRead(g)
          /\ ret' = Done("[]", Num(key), __getitem__(g, key))

-----------------------------------------------------------------------------
(* Display operations *)

\* In the display operations g is what a read of self.value gives where the
\* code makes one: [res, _value, reads] of value_get.

\* DataElement._get_repval as a method: reads self.value
DataElement_repval(g, maxBytes) ==
    [res |-> IF g.res.ok THEN DataElement_get_repval(VR, g.res.val, maxBytes) ELSE g.res,
     _value |-> g._value, reads |-> g.reads]

\* _get_repval without the test for an unread value
Deferred_get_repval_reads(g, maxBytes) == DataElement_repval(g, maxBytes)

\* DeferredDataElement._get_repval
Deferred_get_repval(g, maxBytes) ==
    IF _value = None
    THEN [res |-> Returns(Deferred_repval(deferred.length)), _value |-> _value, reads |-> 0]
    ELSE DataElement_repval(g, maxBytes)

\* self.repval
repval(g, maxBytes) ==
    IF kind = "DeferredDataElement"
    THEN Deferred_get_repval(g, maxBytes)
    ELSE DataElement_repval(g, maxBytes)

\* DataElement.__str__ given r, the outcome of self.repval
__str__(r, showVR) ==
    [res |-> IF r.res.ok
             THEN Returns(str_format(tag, private_creator, VR, r.res.val, showVR))
             ELSE r.res,
     _value |-> r._value, reads |-> r.reads]

\* DataElement.__repr__ given s, the outcome of str(self)
__repr__(g, s) ==
    IF VR = "SQ"
    THEN [res |-> IF g.res.ok
                  THEN Returns([k |-> "repval", v |-> <<"repr", g.res.val>>])
                  ELSE g.res,
          _value |-> g._value, reads |-> g.reads]
    ELSE s

\* the class data maxBytesToDisplay and showVR at the time of a call
DisplaySettings == {<<maxBytesToDisplay, TRUE>>, <<1, FALSE>>}

Repval(maxBytes) ==
    /\ kind # "none"
    /\ \E src_val \in Sources : \E g \in {value_get(src_val)} :
       \E r \in {repval(g, maxBytes)} :
          /\ AfterRead(r)
          /\ ret' = Done("repval", None, r.res)

StrOf(maxBytes, showVR) ==
    /\ kind # "none"
    /\ \E src_val \in Sources : \E g \in {value_get(src_val)} :
       \E r \in {repval(g, maxBytes)} : \E s \in {__str__(r, showVR)} :
          /\ AfterRead(s)
          /\ ret' = Done("str", None, s.res)

Repr(maxBytes, showVR) ==
    /\ kind # "none"
    /\ VR = "SQ" => CanRead
    /\ \E src_val \in Sources : \E g \in {value_get(src_val)} :
       \E r \in {repval(g, maxBytes)} : \E s \in {__str__(r, showVR)} :
       \E x \in {__repr__(g, s)} :
          /\ AfterRead(x)
          /\ ret' = Done("repr", None, x.res)

Description ==
    /\ kind # "none"
    /\ ret' = Done("description", None,
                   Returns([k |-> "name", v |-> description(tag, private_creator)]))
    /\ UNCHANGED <<kind, tag, VR, _value, file_tell, is_undefined_length, private_creator,
                   deferred, source_mtime, materializations, assigned>>

\* the owner of the element attaches the private_creator attribute
SetPrivateCreator(creator) ==
    /\ kind # "none"
    /\ private_creator' = [k |-> "creator", v |-> <<creator>>]
    /\ ret' = Done("private_creator=", None, Returns(None))
    /\ UNCHANGED <<kind, tag, VR, _value, file_tell, is_undefined_length,
                   deferred, source_mtime, materializations, assigned>>

\* the environment: the source file is modified
Touch ==
    /\ kind = "DeferredDataElement"
    /\ source_mtime < MaxMtime
    /\ source_mtime' = source_mtime + 1
    /\ ret' = Done("touch", None, Returns(None))
    /\ UNCHANGED <<kind, tag, VR, _value, file_tell, is_undefined_length, private_creator,
                   deferred, materializations, assigned>>

Lengths == {0, 8}

\* the operations on an element that exists; the source file may change
Operations ==
    \/ GetValue
    \/ \E val \in InputValues : SetValue(val)
    \/ GetVM
    \/ \E key \in Keys : GetItem(key)
    \/ \E d \in DisplaySettings : Repval(d[1])
    \/ \E d \in DisplaySettings : StrOf(d[1], d[2])
    \/ \E d \in DisplaySettings : Repr(d[1], d[2])
    \/ Description
    \/ Touch

\* The life of an element: its value is set, read, indexed and displayed and
\* its VR is set, for two tags and the VRs that differ in conversion
\* (PN: split, passed through; IS: split, converted; SQ: wrapped; OB: bytes).
LifeTags == {<<16, 16>>, <<9, 16>>}
LifeVRs == {"PN", "IS", "SQ", "OB"}

Next ==
    \/ \E t \in LifeTags, vr \in LifeVRs, val \in InputValues : NewDataElement(t, vr, val)
    \/ \E t \in LifeTags, vr \in LifeVRs, length \in Lengths :
          NewDeferredDataElement(t, vr, length)
    \/ \E vr \in LifeVRs : SetVR(vr)
    \/ Operations

Spec == Init /\ [][Next]_vars

\* Value assignment under every VR, for one tag.
NextAssign ==
    \/ \E vr \in VRs, val \in InputValues : NewDataElement(<<16, 16>>, vr, val)
    \/ \E val \in InputValues : SetValue(val)
    \/ GetValue
    \/ GetVM

SpecAssign == Init /\ [][NextAssign]_vars

\* Tags: elements made from raw records, and the description of every tag.
NextTags ==
    \/ \E raw \in RawDataElements : FromRaw(raw)
    \/ \E t \in Tags : NewDataElement(t, "PN", Str(<<"1">>))
    \/ \E t \in Tags, length \in Lengths : NewDeferredDataElement(t, "PN", length)
    \/ \E creator \in Creators : SetPrivateCreator(creator)
    \/ Description
    \/ \E d \in DisplaySettings : StrOf(d[1], d[2])

SpecTags == Init /\ [][NextTags]_vars

-----------------------------------------------------------------------------
(* Properties *)

IsDeferred == kind = "DeferredDataElement"
Stale == source_mtime # deferred.file_mtime

\* C1 (as amended): a value read of an unread DeferredDataElement attempts
\* exactly one materialization; a value read made once the value is stored
\* returns the stored value and attempts none. (After a failed attempt the
\* element is still unread, and the next value read attempts again.)
C1_ReadMaterializesWhileUnread ==
    [][(IsDeferred /\ ret'.op = "value") =>
          IF _value = None
          THEN materializations' = materializations + 1
          ELSE /\ materializations' = materializations
               /\ ret'.ok /\ ret'.out = _value
               /\ _value' = _value]_vars

\* a value read returned the stored value of an element whose source has
\* changed since: it was not read again
C1_Witness ==
    /\ IsDeferred /\ ~assigned /\ Stale
    /\ ret.op = "value" /\ ret.ok /\ ret.out = _value
    /\ materializations = 1

\* C1 (as stated): on an element whose value was never assigned, the first
\* value read attempts exactly one materialization and every later value
\* read attempts none.
C1_Original ==
    [][(IsDeferred /\ ~assigned /\ ret'.op = "value") =>
          IF materializations = 0
          THEN materializations' = 1
          ELSE materializations' = materializations]_vars

\* C2: a value read of an unread DeferredDataElement whose source has a
\* modification time other than the one stored fails with the stale-source
\* error, returns no value, and leaves the element unread.
C2_StaleReadFails ==
    [][(Unread /\ Stale /\ ret'.op = "value") =>
          /\ ~ret'.ok /\ ret'.out = Error("StaleSource")
          /\ kind' = "DeferredDataElement" /\ _value' = None]_vars

C2_Witness ==
    /\ Unread /\ Stale
    /\ ret.op = "value" /\ ~ret.ok /\ ret.out = Error("StaleSource")

\* C3: once a DeferredDataElement holds a value, no operation returns it to
\* the unread state or attempts another materialization.
C3_OneWay ==
    [][(IsDeferred /\ _value # None) =>
          (_value' # None /\ materializations' = materializations)]_vars

-----------------------------------------------------------------------------

\* the i-th backslash-separated substring of s, by the positions of its backslashes
BackslashAt(s, j) ==
    IF j = 0 THEN 0
    ELSE IF j > CountBackslash(s) THEN Len(s) + 1
    ELSE CHOOSE p \in 1..Len(s) :
            /\ s[p] = _backslash
            /\ Cardinality({q \in 1..p : s[q] = _backslash}) = j

Field(s, i) == SubSeq(s, BackslashAt(s, i - 1) + 1, BackslashAt(s, i) - 1)

\* the VR conversion of one string
Converted(vr, s) ==
    CASE vr = "IS" -> IS(Str(s)).val
      [] vr = "DS" -> DS(Str(s)).val
      [] vr = "UI" -> UID(Str(s)).val
      [] OTHER -> Str(s)

NoSplitSet ==
    {"UT", "ST", "LT", "FL", "FD", "AT", "OB", "OW", "OF", "SL", "SQ", "SS", "UL",
     "OB/OW", "OW/OB", "OB or OW", "OW or OB", "UN"}
NamesUS == {"US", "US or SS", "US or SS or OW"}

\* a string with a backslash was assigned (at construction or later)
AssignedDelimited ==
    /\ ret.op \in {"DataElement", "value="}
    /\ ret.arg.k = "str"
    /\ CountBackslash(ret.arg.v) >= 1

IsSplitOf(val, vr, s) ==
    /\ val.k = "list"
    /\ Len(val.v) = CountBackslash(s) + 1
    /\ \A i \in 1..Len(val.v) : val.v[i] = Converted(vr, Field(s, i))

\* C4 (as amended): a string with k >= 1 backslashes assigned under a VR
\* outside the no-split set and without "US" is stored as a list of k + 1
\* items, the i-th the VR conversion of the i-th substring; under a no-split
\* VR other than SQ, or a VR with "US", it is stored whole; under SQ it is
\* handed whole to Sequence, and what is stored is that Sequence, not the string.
C4_SplitByVR ==
    AssignedDelimited =>
        IF VR \notin NoSplitSet /\ VR \notin NamesUS
        THEN ret.ok /\ IsSplitOf(_value, VR, ret.arg.v)
        ELSE IF VR = "SQ"
        THEN ret.ok => (_value.k = "Sequence" /\ _value # ret.arg)
        ELSE ret.ok /\ _value = ret.arg

C4_Witness ==
    /\ AssignedDelimited /\ ret.op = "value=" /\ VR = "IS"
    /\ ret.arg = Str(<<"1", _backslash, "1">>)
    /\ _value.k = "list" /\ Len(_value.v) = 2 /\ _value.v[2].k = "IS"

\* C4 (as stated): under every no-split VR, SQ included, the string is
\* stored as a single unsplit value.
C4_Original ==
    AssignedDelimited =>
        /\ ret.ok
        /\ IF VR \notin NoSplitSet /\ VR \notin NamesUS
           THEN IsSplitOf(_value, VR, ret.arg.v)
           ELSE _value = ret.arg

-----------------------------------------------------------------------------

FromRawDone == ret.op = "DataElement_from_raw"
InDictionary(t) == t \in DOMAIN DicomDictionary
OddGroup(t) == t[1] % 2 = 1

\* C5: DataElement_from_raw takes an explicit VR as it is; for an absent VR
\* the dictionary's, else OB for a private tag, else UL for element number
\* zero, else it fails with the unknown-tag error and makes no element.
C5_ResolvedVR ==
    FromRawDone =>
        LET raw == ret.arg
            unknown == /\ raw.VR = NoneVR /\ ~InDictionary(raw.tag)
                       /\ ~OddGroup(raw.tag) /\ raw.tag[2] # 0
            expected == IF raw.VR # NoneVR THEN raw.VR
                        ELSE IF InDictionary(raw.tag) THEN DicomDictionary[raw.tag].VR
                        ELSE IF OddGroup(raw.tag) THEN "OB"
                        ELSE "UL"
        IN  IF unknown
            THEN ~ret.ok /\ ret.out = Error("KeyError") /\ kind = "none"
            ELSE /\ ret.out # Error("KeyError")
                 /\ ret.ok => (kind = "DataElement" /\ VR = expected /\ tag = raw.tag)
                 /\ ~ret.ok => kind = "none"

C5_Witness ==
    /\ FromRawDone /\ ret.ok /\ kind = "DataElement"
    /\ ret.arg.VR = NoneVR /\ tag = <<9, 0>> /\ VR = "OB"

\* C6 (as amended): for a raw record with element number 0 and no VR,
\* DataElement_from_raw gives the dictionary's VR when the tag is in the
\* dictionary, else UL when the group number is even and OB when it is odd.
C6_GroupLengthVR ==
    (FromRawDone /\ ret.arg.tag[2] = 0 /\ ret.arg.VR = NoneVR) =>
        /\ ret.out # Error("KeyError")
        /\ ret.ok =>
              /\ kind = "DataElement"
              /\ VR = IF InDictionary(tag) THEN DicomDictionary[tag].VR
                      ELSE IF tag[1] % 2 = 0 THEN "UL" ELSE "OB"

C6_Witness ==
    /\ FromRawDone /\ ret.ok /\ kind = "DataElement"
    /\ ret.arg.VR = NoneVR /\ tag = <<16, 0>> /\ VR = "UL"

\* C6 (as stated): element number 0 and no VR give VR UL for every group.
C6_Original ==
    (FromRawDone /\ ret.arg.tag[2] = 0 /\ ret.arg.VR = NoneVR) =>
        (ret.ok /\ kind = "DataElement" /\ VR = "UL")

-----------------------------------------------------------------------------

\* C7: indexing a DataElement whose value is not a Sequence fails with the
\* "not a Sequence" TypeError.
C7_NonSequenceUnscriptable ==
    (kind = "DataElement" /\ ret.op = "[]" /\ _value.k # "Sequence") =>
        (~ret.ok /\ ret.out = Error(Unscriptable))

\* C8: no operation on an element changes its VR.
C8_VRImmutable == [][kind # "none" => VR' = VR]_vars

\* description() was called for a private tag that the dictionary does not
\* know, with no private_creator attached
PrivateDescribed ==
    /\ ret.op = "description"
    /\ OddGroup(tag) /\ ~InDictionary(tag) /\ private_creator = NoAttr

\* C9 (as amended): for such a tag description() is "Private Creator"
\* exactly when the high byte of the 16-bit element number is zero (element
\* number below 256), and "Private tag data" otherwise.
C9_PrivateCreatorHighByte ==
    PrivateDescribed =>
        ret.out.v = IF tag[2] < 256 THEN <<"Private Creator">> ELSE <<"Private tag data">>

C9_Witness ==
    PrivateDescribed /\ tag = <<9, 16>> /\ ret.out.v = <<"Private Creator">>

\* C9 (as stated): "Private Creator" exactly when the low byte is zero.
C9_Original ==
    PrivateDescribed =>
        ret.out.v = IF tag[2] % 256 = 0 THEN <<"Private Creator">> ELSE <<"Private tag data">>

\* the value part of what repval or str() gave
ValuePart(r) == IF r.op = "str" THEN r.out.v[4] ELSE r.out

\* C10: repval and str() of an unread DeferredDataElement attempt no
\* materialization, give "Deferred read: length N" for the stored length N,
\* and leave the element unread with its tag, VR and stored source location.
C10_DisplayDoesNotMaterialize ==
    [][(Unread /\ ret'.op \in {"repval", "str"}) =>
          /\ materializations' = materializations
          /\ kind' = kind /\ _value' = None
          /\ tag' = tag /\ VR' = VR /\ deferred' = deferred
          /\ ret'.ok
          /\ ValuePart(ret') =
                [k |-> "repval", v |-> <<"Deferred read: length %d", Num(deferred.length)>>]]_vars

C10_Witness ==
    /\ Unread /\ ret.op = "str" /\ ret.ok /\ materializations = 0
    /\ deferred.length = 8
    /\ ret.out.v[4] = [k |-> "repval", v |-> <<"Deferred read: length %d", Num(8)>>]

====
